---------------------------- MODULE Spec2Model ----------------------------
(***************************************************************************)
(* Model of the LRU cache of include/Cache.h (template class Cache) and of *)
(* its callers: the test program test/test_cache.cpp (main) and an         *)
(* arbitrary client that issues any bounded sequence of find / insert /    *)
(* statistics calls on a cache constructed with any capacity argument.     *)
(*                                                                         *)
(* Keys are strings (the test instantiates Cache<std::string, double>).    *)
(* Values are the doubles of the test in hundredths (3.14 is 314).         *)
(* A std::list node is a record [id, key]: id is the node's identity, the  *)
(* thing a std::list iterator designates and that splice preserves.        *)
(* A value_type* is <<>> (the null pointer) or <<k>>, the address of       *)
(* table[k].value.                                                         *)
(***************************************************************************)
EXTENDS Integers, Sequences, FiniteSets, TLC

\* ------------------------------------------------------------------ bounds
\* calls the arbitrary client makes
MaxOps == 5
\* the arbitrary client uses the first MaxKeys names of KeyNames
MaxKeys == 3
\* the arbitrary client constructs with a size argument in -MaxNeg..MaxSize
MaxSize == 2
MaxNeg == 1

\* ------------------------------------------------- constants of the program
\* Cache<std::string, double> cc(4)
TestSize == 4
\* for (int i = 0 ; i < 30; ++i)
TestLoops == 30
\* unsigned is two 16-bit halves (32 bits)
HalfWord == 65536

KeyNames == <<"pi", "e", "gold", "sq2", "zero", "one">>
AllKeys == {KeyNames[i] : i \in 1..Len(KeyNames)}
ClientKeys == {KeyNames[i] : i \in 1..MaxKeys}
\* the arbitrary client stores one of two values: enough to tell an
\* overwritten value from the one it replaces
ClientValues == {0, 1}
ClientSizes == (0 - MaxNeg)..MaxSize

VARIABLES
    maxsize,    \* unsigned maxsize, as [hi, lo] 16-bit halves
    lru_list,   \* std::list<key_type>: sequence of nodes, front first
    table,      \* std::map<key_type, cached_value>
    stats,      \* cache_statistics
    out,        \* the std::ostream statistics writes to
    ret,        \* the value_type* the last find returned
    client,     \* who drives the cache: "any" or "main"
    pc,         \* main's position in its call sequence
    capacity,   \* the int passed to the constructor
    clock,      \* number of public calls made so far
    touched,    \* history: clock of each key's last touch, 0 if never
    calls,      \* history: what the caller did so far
    last,       \* history: the last public call
    written     \* history: the value of each key's latest insert

vars == <<maxsize, lru_list, table, stats, out, ret, client, pc, capacity,
          clock, touched, calls, last, written>>

\* ------------------------------------------------------ unsigned arithmetic
\* the conversion with a negative size taken for 0
ToUnsigned_clamped(size) ==
    IF size < 0 THEN [hi |-> 0, lo |-> 0]
    ELSE [hi |-> (size \div HalfWord) % HalfWord, lo |-> size % HalfWord]

\* int -> unsigned conversion of the member initializer maxsize(size)
ToUnsigned(size) ==
    [hi |-> (size \div HalfWord) % HalfWord, lo |-> size % HalfWord]

\* lru_list.size() > maxsize, n a list size
SizeExceeds(n, u) ==
    \/ (n \div HalfWord) > u.hi
    \/ (n \div HalfWord) = u.hi /\ (n % HalfWord) > u.lo

\* ---------------------------------------------------------------- std::list
ListKeys(list) == {list[i].key : i \in 1..Len(list)}
ListIds(list) == {list[i].id : i \in 1..Len(list)}

\* identity of a freshly allocated node: any identity no live node has
NewNode(list) == CHOOSE n \in 1..(Len(list) + 1) : n \notin ListIds(list)

\* lru_list.push_front(key); lru_list.begin() is then the new node
push_front(list, key) == <<[id |-> NewNode(list), key |-> key]>> \o list

\* lru_list.pop_back()
pop_back(list) == SubSeq(list, 1, Len(list) - 1)

\* lru_list.back()
back(list) == list[Len(list)].key

\* splice to lru_list.end() for lru_list.begin()
splice_end(list, li) ==
    LET at == {i \in 1..Len(list) : list[i].id = li}
    IN  IF at = {} THEN list
        ELSE LET i == CHOOSE j \in at : TRUE
             IN  SubSeq(list, 1, i - 1) \o SubSeq(list, i + 1, Len(list))
                                       \o <<list[i]>>

\* the found node and the first node change places (a swap for a splice)
splice_swap(list, li) ==
    LET at == {i \in 1..Len(list) : list[i].id = li}
    IN  IF at = {} THEN list
        ELSE LET i == CHOOSE j \in at : TRUE
             IN  [j \in 1..Len(list) |->
                     IF j = 1 THEN list[i] ELSE IF j = i THEN list[1]
                     ELSE list[j]]

\* lru_list.splice(lru_list.begin(), lru_list, li): the node li designates
\* is relinked before the first node; no node is copied or destroyed
splice(list, li) ==
    LET at == {i \in 1..Len(list) : list[i].id = li}
    IN  IF at = {} THEN list
        ELSE LET i == CHOOSE j \in at : TRUE
             IN  <<list[i]>> \o SubSeq(list, 1, i - 1)
                             \o SubSeq(list, i + 1, Len(list))

\* ----------------------------------------------------------------- std::map
\* table.insert(make_pair(key, cv)): no effect when the key is present
map_insert(t, key, cv) ==
    IF key \in DOMAIN t THEN t
    ELSE [k \in DOMAIN t \cup {key} |-> IF k = key THEN cv ELSE t[k]]

\* table.erase(lru_key)
map_erase(t, key) == [k \in DOMAIN t \ {key} |-> t[k]]

\* *p for a non-null value_type* p
Deref(t, p) == t[p[1]].value

\* -------------------------------------------------------------- Cache::find
\* find without the splice: a hit leaves the key where it is
find_no_splice(key) ==
    LET attempted == [stats EXCEPT !.found_hits = @ + 1]
    IN  IF key \notin DOMAIN table
        THEN [ret |-> <<>>, lru_list |-> lru_list, stats |-> attempted]
        ELSE [ret |-> <<key>>,
              lru_list |-> lru_list,
              stats |-> [attempted EXCEPT !.found = @ + 1]]

\* find with stats.found++ moved before the test for a miss
find_found_early(key) ==
    LET counted == [stats EXCEPT !.found_hits = @ + 1, !.found = @ + 1]
    IN  IF key \notin DOMAIN table
        THEN [ret |-> <<>>, lru_list |-> lru_list, stats |-> counted]
        ELSE [ret |-> <<key>>,
              lru_list |-> splice(lru_list, table[key].cache_i),
              stats |-> counted]

\* find with stats.found_hits++ moved after the test for a miss
find_hits_late(key) ==
    IF key \notin DOMAIN table
    THEN [ret |-> <<>>, lru_list |-> lru_list, stats |-> stats]
    ELSE [ret |-> <<key>>,
          lru_list |-> splice(lru_list, table[key].cache_i),
          stats |-> [stats EXCEPT !.found_hits = @ + 1, !.found = @ + 1]]

\* find counting found_hits on a miss only (taken for a miss counter)
find_attempts_on_miss(key) ==
    IF key \notin DOMAIN table
    THEN [ret |-> <<>>, lru_list |-> lru_list,
          stats |-> [stats EXCEPT !.found_hits = @ + 1]]
    ELSE [ret |-> <<key>>,
          lru_list |-> splice(lru_list, table[key].cache_i),
          stats |-> [stats EXCEPT !.found = @ + 1]]

\* value_type* find(const key_type& key): the returned pointer and the
\* members it changes
find(key) ==
    LET attempted == [stats EXCEPT !.found_hits = @ + 1]
    IN  IF key \notin DOMAIN table
        THEN [ret |-> <<>>, lru_list |-> lru_list, stats |-> attempted]
        ELSE [ret |-> <<key>>,
              lru_list |-> splice(lru_list, table[key].cache_i),
              stats |-> [attempted EXCEPT !.found = @ + 1]]

\* the eviction block without table.erase(lru_key)
evict_no_erase(list, t, st) ==
    IF SizeExceeds(Len(list), maxsize)
    THEN [lru_list |-> pop_back(list),
          table |-> t,
          stats |-> [st EXCEPT !.removed = @ + 1]]
    ELSE [lru_list |-> list, table |-> t, stats |-> st]

\* the eviction block taking the front of the list for the back
evict_front(list, t, st) ==
    IF SizeExceeds(Len(list), maxsize)
    THEN [lru_list |-> SubSeq(list, 2, Len(list)),
          table |-> map_erase(t, list[1].key),
          stats |-> [st EXCEPT !.removed = @ + 1]]
    ELSE [lru_list |-> list, table |-> t, stats |-> st]

\* the eviction block with >= for >
evict_ge(list, t, st) ==
    IF SizeExceeds(Len(list) + 1, maxsize)
    THEN [lru_list |-> pop_back(list),
          table |-> map_erase(t, back(list)),
          stats |-> [st EXCEPT !.removed = @ + 1]]
    ELSE [lru_list |-> list, table |-> t, stats |-> st]

\* the eviction block with the test off by one: size() > maxsize + 1
evict_late(list, t, st) ==
    IF Len(list) >= 1 /\ SizeExceeds(Len(list) - 1, maxsize)
    THEN [lru_list |-> pop_back(list),
          table |-> map_erase(t, back(list)),
          stats |-> [st EXCEPT !.removed = @ + 1]]
    ELSE [lru_list |-> list, table |-> t, stats |-> st]

\* the eviction block without stats.removed++
evict_no_count(list, t, st) ==
    IF SizeExceeds(Len(list), maxsize)
    THEN [lru_list |-> pop_back(list),
          table |-> map_erase(t, back(list)),
          stats |-> st]
    ELSE [lru_list |-> list, table |-> t, stats |-> st]

\* the eviction block of insert: if (lru_list.size() > maxsize) { ... }
evict(list, t, st) ==
    IF SizeExceeds(Len(list), maxsize)
    THEN [lru_list |-> pop_back(list),
          table |-> map_erase(t, back(list)),
          stats |-> [st EXCEPT !.removed = @ + 1]]
    ELSE [lru_list |-> list, table |-> t, stats |-> st]

\* ------------------------------------------------------------ Cache::insert
\* insert without *valptr = value on a hit
insert_no_overwrite(key, value) ==
    LET f == find(key)
    IN  IF f.ret # <<>>
        THEN [lru_list |-> f.lru_list, table |-> table, stats |-> f.stats]
        ELSE LET pushed == push_front(f.lru_list, key)
                 cv == [value |-> value, cache_i |-> pushed[1].id]
             IN  evict(pushed, map_insert(table, key, cv), f.stats)

\* insert looking the key up with table.find(key), not with Cache::find
insert_direct_lookup(key, value) ==
    IF key \in DOMAIN table
    THEN [lru_list |-> splice(lru_list, table[key].cache_i),
          table |-> [table EXCEPT ![key].value = value],
          stats |-> stats]
    ELSE LET pushed == push_front(lru_list, key)
             cv == [value |-> value, cache_i |-> pushed[1].id]
         IN  evict(pushed, map_insert(table, key, cv), stats)

\* void insert(const key_type& key, const value_type& value): the members
\* after the call
insert(key, value) ==
    LET f == find(key)
    IN  IF f.ret # <<>>
        THEN [lru_list |-> f.lru_list,
              table |-> [table EXCEPT ![f.ret[1]].value = value],
              stats |-> f.stats]
        ELSE LET pushed == push_front(f.lru_list, key)
                 cv == [value |-> value, cache_i |-> pushed[1].id]
             IN  evict(pushed, map_insert(table, key, cv), f.stats)

\* -------------------------------------------------------- Cache::statistics
\* statistics writing the miss member for found_hits - found
statistics_miss_member ==
    << [label |-> "cache found hits:", value |-> stats.found_hits],
       [label |-> "cache found     :", value |-> stats.found],
       [label |-> "cache removed   :", value |-> stats.removed],
       [label |-> "cache missed    :", value |-> stats.miss] >>

\* void statistics(std::ostream& out) const: the four lines written
statistics ==
    << [label |-> "cache found hits:", value |-> stats.found_hits],
       [label |-> "cache found     :", value |-> stats.found],
       [label |-> "cache removed   :", value |-> stats.removed],
       [label |-> "cache missed    :",
        value |-> stats.found_hits - stats.found] >>

\* ------------------------------------------------------------------ history
\* A touch of key is an insert of it or a find that finds it resident.
Touch(op, key) ==
    IF op = "insert" \/ (op = "find" /\ key \in DOMAIN table)
    THEN [touched EXCEPT ![key] = clock + 1]
    ELSE touched

\* What the caller did, told from the call and the state before it only.
Count(op, key) ==
    LET resident == key \in DOMAIN table
        n == Cardinality(DOMAIN table)
    IN  [finds      |-> calls.finds + (IF op = "find" THEN 1 ELSE 0),
         find_hits  |-> calls.find_hits
                          + (IF op = "find" /\ resident THEN 1 ELSE 0),
         inserts    |-> calls.inserts + (IF op = "insert" THEN 1 ELSE 0),
         updates    |-> calls.updates
                          + (IF op = "insert" /\ resident THEN 1 ELSE 0),
         overflows  |-> calls.overflows
                          + (IF op = "insert" /\ ~resident
                                /\ SizeExceeds(n + 1, maxsize)
                             THEN 1 ELSE 0)]

\* The keys that were resident (or added by this call) and are gone after it.
Evicted(op, key, after) ==
    (DOMAIN table \cup (IF op = "insert" THEN {key} ELSE {})) \ DOMAIN after

\* The value the caller last passed to insert for each key inserted so far.
Write(op, key, value) ==
    IF op = "insert"
    THEN [k \in DOMAIN written \cup {key} |->
             IF k = key THEN value ELSE written[k]]
    ELSE written

Record(op, key, value, after) ==
    /\ clock' = clock + 1
    /\ written' = Write(op, key, value)
    /\ touched' = Touch(op, key)
    /\ calls' = Count(op, key)
    /\ last' = [op |-> op, key |-> key, value |-> value,
                resident |-> key \in DOMAIN table,
                evicted |-> Evicted(op, key, after)]

\* ------------------------------------------------------------- public calls
Find(key) ==
    LET f == find(key)
    IN  /\ ret' = f.ret
        /\ lru_list' = f.lru_list
        /\ stats' = f.stats
        /\ Record("find", key, 0, table)
        /\ UNCHANGED <<maxsize, table, out, capacity>>

Insert(key, value) ==
    LET r == insert(key, value)
    IN  /\ lru_list' = r.lru_list
        /\ table' = r.table
        /\ stats' = r.stats
        /\ Record("insert", key, value, r.table)
        /\ UNCHANGED <<maxsize, out, ret, capacity>>

Statistics ==
    /\ out' = out \o statistics
    /\ Record("statistics", "", 0, table)
    /\ UNCHANGED <<maxsize, lru_list, table, stats, ret, capacity>>

\* -------------------------------------------------------------- construction
\* Cache(int size) : maxsize(size) { } with the members' default constructors
Construct(size) ==
    /\ capacity = size
    /\ maxsize = ToUnsigned(size)
    /\ lru_list = <<>>
    /\ table = <<>>
    /\ stats = [found_hits |-> 0, found |-> 0, removed |-> 0, miss |-> 0]

\* ------------------------------------------------------- test_cache.cpp main
Call(op, key, value) == [op |-> op, key |-> key, value |-> value]

MainProgram ==
    << Call("insert", "pi", 314),
       Call("insert", "e", 217),
       Call("insert", "gold", 161),
       Call("insert", "sq2", 114),
       Call("insert", "zero", 0),
       Call("find", "e", 0),
       Call("insert", "one", 100),
       Call("statistics", "", 0) >>
    \o [i \in 1..TestLoops |-> Call("find", "one", 0)]
    \o << Call("statistics", "", 0) >>

Init ==
    /\ \/ client = "any" /\ \E size \in ClientSizes : Construct(size)
       \/ client = "main" /\ Construct(TestSize)
    /\ out = <<>>
    /\ ret = <<>>
    /\ pc = 1
    /\ clock = 0
    /\ touched = [k \in AllKeys |-> 0]
    /\ calls = [finds |-> 0, find_hits |-> 0, inserts |-> 0, updates |-> 0,
                overflows |-> 0]
    /\ last = [op |-> "new", key |-> "", value |-> 0, resident |-> FALSE,
               evicted |-> {}]
    /\ written = <<>>

ClientFind ==
    /\ client = "any" /\ clock < MaxOps
    /\ \E key \in ClientKeys : Find(key)
    /\ UNCHANGED <<client, pc>>

ClientInsert ==
    /\ client = "any" /\ clock < MaxOps
    /\ \E key \in ClientKeys, value \in ClientValues : Insert(key, value)
    /\ UNCHANGED <<client, pc>>

ClientStatistics ==
    /\ client = "any" /\ clock < MaxOps
    /\ Statistics
    /\ UNCHANGED <<client, pc>>

MainFind ==
    /\ client = "main" /\ pc <= Len(MainProgram)
    /\ MainProgram[pc].op = "find"
    /\ Find(MainProgram[pc].key)
    /\ pc' = pc + 1
    /\ UNCHANGED client

MainInsert ==
    /\ client = "main" /\ pc <= Len(MainProgram)
    /\ MainProgram[pc].op = "insert"
    /\ Insert(MainProgram[pc].key, MainProgram[pc].value)
    /\ pc' = pc + 1
    /\ UNCHANGED client

MainStatistics ==
    /\ client = "main" /\ pc <= Len(MainProgram)
    /\ MainProgram[pc].op = "statistics"
    /\ Statistics
    /\ pc' = pc + 1
    /\ UNCHANGED client

Next ==
    \/ ClientFind
    \/ ClientInsert
    \/ ClientStatistics
    \/ MainFind
    \/ MainInsert
    \/ MainStatistics

Spec == Init /\ [][Next]_vars

\* ---------------------------------------------------------------- well-typed
TypeOK ==
    /\ maxsize \in [hi : 0..(HalfWord - 1), lo : 0..(HalfWord - 1)]
    /\ DOMAIN table \subseteq AllKeys
    /\ ListKeys(lru_list) \subseteq AllKeys
    /\ client \in {"any", "main"}
    /\ Len(ret) <= 1

\* ================================================================== claims
Size == Cardinality(DOMAIN table)
Front == lru_list[1].key
\* the keys resident or added before a call that are gone after it
Lost(key) == (DOMAIN table \cup {key}) \ DOMAIN table'

\* C1: for a cache constructed with capacity c >= 1, after every completed
\* public call the index and the recency ordering hold the same number of
\* keys, and that number is at most c.
C1_CapacityBound ==
    capacity >= 1 =>
        /\ Size = Len(lru_list)
        /\ Len(lru_list) <= capacity
        /\ Size <= capacity

\* a cache of several keys that is full, has evicted before, and has just
\* completed a call
C1_Witness ==
    /\ capacity >= 2
    /\ Size = capacity /\ Len(lru_list) = capacity
    /\ stats.removed >= 1
    /\ last.op \in {"find", "insert", "statistics"}

\* C2: when an insert evicts (capacity c >= 1), the evicted key is the one
\* whose last touch is the oldest among the keys resident just before the
\* eviction (the keys resident before the call and the key just added).
C2_EvictsLeastRecentlyTouched ==
    [][ (capacity >= 1 /\ last'.op = "insert") =>
            \A k \in Lost(last'.key) :
                /\ k \in DOMAIN table
                /\ \A r \in DOMAIN table \cup {last'.key} :
                       touched'[k] <= touched'[r] ]_vars

\* an eviction from a cache of several keys, after a find that hit or an
\* insert of a resident key changed the order the keys were added in
C2_Witness ==
    /\ capacity >= 2
    /\ last.op = "insert" /\ last.evicted # {}
    /\ calls.find_hits + calls.updates > 0

\* C3: every key of the index appears exactly once in the recency ordering,
\* every element of the ordering is a key of the index, and the handle
\* stored with a key designates the one list node that holds that key.
C3_IndexOrderingBijection ==
    /\ ListKeys(lru_list) = DOMAIN table
    /\ \A i, j \in 1..Len(lru_list) :
           (lru_list[i].key = lru_list[j].key \/ lru_list[i].id = lru_list[j].id)
               => i = j
    /\ \A k \in DOMAIN table :
           \E i \in 1..Len(lru_list) :
               lru_list[i].id = table[k].cache_i /\ lru_list[i].key = k

\* several keys resident after evictions and hits have relinked the list
C3_Witness ==
    /\ Len(lru_list) >= 2
    /\ stats.removed > 0
    /\ calls.find_hits > 0
    /\ table[Front].cache_i # 1

\* C4: for capacity c >= 1 and a non-empty cache, the front of the ordering
\* is the key most recently touched (by a find that hit or by an insert),
\* and the back is the key an overflowing insert made now would evict.
C4_FrontMostRecentBackNextVictim ==
    (capacity >= 1 /\ lru_list # <<>>) =>
        /\ \A k \in AllKeys : touched[k] <= touched[Front]
        /\ \A k \in AllKeys \ DOMAIN table, v \in ClientValues :
               (Size + 1 > capacity) =>
                   (DOMAIN table \cup {k}) \ DOMAIN insert(k, v).table
                       = {back(lru_list)}

\* a full cache of several keys, after a hit promoted a key and then a find
\* missed (and so touched nothing)
C4_Witness ==
    /\ capacity >= 2
    /\ Len(lru_list) = capacity
    /\ calls.find_hits > 0
    /\ last.op = "find" /\ ~last.resident

\* C5: for capacity c >= 1, in any state, insert(k, v) of a non-resident k
\* leaves k resident and at the front, and a find(k) made next returns v.
C5_InsertNewKeySucceeds ==
    (capacity >= 1 /\ last.op = "insert" /\ ~last.resident) =>
        /\ last.key \in DOMAIN table
        /\ lru_list # <<>> /\ Front = last.key
        /\ find(last.key).ret # <<>>
        /\ Deref(table, find(last.key).ret) = last.value

\* the insert of a new key into a full cache
C5_Witness ==
    /\ capacity >= 1
    /\ last.op = "insert" /\ ~last.resident
    /\ last.evicted # {}
    /\ Len(lru_list) = capacity

\* C6: insert(k, v2) on a resident key k overwrites the value so that a
\* following find(k) returns v2, leaves the set and number of resident keys
\* unchanged, evicts nothing, leaves the removed counter unchanged and makes
\* k the front of the recency ordering.
C6_UpdateInPlace ==
    [][ (last'.op = "insert" /\ last'.resident) =>
            /\ DOMAIN table' = DOMAIN table
            /\ ListKeys(lru_list') = ListKeys(lru_list)
            /\ Len(lru_list') = Len(lru_list)
            /\ Lost(last'.key) = {}
            /\ stats'.removed = stats.removed
            /\ Front' = last'.key
            /\ (find(last.key).ret # <<>>)'
            /\ (Deref(table, find(last.key).ret) = last.value)' ]_vars

\* a resident key was just inserted again into a full cache of several keys
C6_Witness ==
    /\ last.op = "insert" /\ last.resident
    /\ capacity >= 2 /\ Size = capacity
    /\ last.value = 1

\* C7: find(k) on a key that is not resident returns the null pointer and
\* leaves the index, the recency ordering, the found counter and the removed
\* counter unchanged; only found_hits changes, by exactly +1.
C7_MissHasNoSideEffect ==
    [][ (last'.op = "find" /\ ~last'.resident) =>
            /\ ret' = <<>>
            /\ table' = table
            /\ lru_list' = lru_list
            /\ stats'.found = stats.found
            /\ stats'.removed = stats.removed
            /\ stats'.miss = stats.miss
            /\ stats'.found_hits = stats.found_hits + 1 ]_vars

\* a find missed on a cache that holds other keys and has hit before
C7_Witness ==
    /\ last.op = "find" /\ ~last.resident
    /\ ret = <<>>
    /\ Len(lru_list) >= 2
    /\ stats.found >= 1

\* C8: for capacity c >= 1 an insert of a non-resident key evicts if and
\* only if the cache held exactly c entries before the call; when it evicts
\* it removes exactly the key at the back of the ordering from the index and
\* from the ordering and adds 1 to removed; no insert evicts more than one
\* entry and find evicts nothing.
C8_EvictsExactlyOnOverflow ==
    [][ /\ (capacity >= 1 /\ last'.op = "insert" /\ ~last'.resident) =>
               IF Size = capacity
               THEN /\ Lost(last'.key) = {back(lru_list)}
                    /\ DOMAIN table' =
                           (DOMAIN table \cup {last'.key}) \ {back(lru_list)}
                    /\ ListKeys(lru_list') = DOMAIN table'
                    /\ Len(lru_list') = Len(lru_list)
                    /\ stats'.removed = stats.removed + 1
               ELSE /\ Lost(last'.key) = {}
                    /\ DOMAIN table' = DOMAIN table \cup {last'.key}
                    /\ ListKeys(lru_list') = DOMAIN table'
                    /\ Len(lru_list') = Len(lru_list) + 1
                    /\ stats'.removed = stats.removed
        /\ last'.op = "insert" =>
               /\ Cardinality(Lost(last'.key)) <= 1
               /\ Len(lru_list') >= Len(lru_list)
               /\ stats'.removed - stats.removed
                      = Cardinality(Lost(last'.key))
        /\ last'.op = "find" =>
               /\ DOMAIN table' = DOMAIN table
               /\ ListKeys(lru_list') = ListKeys(lru_list)
               /\ Len(lru_list') = Len(lru_list)
               /\ stats'.removed = stats.removed ]_vars

\* inserts of new keys both evicted and did not, on a cache of several keys,
\* and a find hit in a full cache
C8_Witness ==
    /\ capacity >= 2
    /\ last.op = "find" /\ last.resident
    /\ Size = capacity
    /\ stats.removed >= 1
    /\ calls.inserts - calls.updates > stats.removed

\* what the caller of statistics reads: attempts, found, removed, missed
Reported == [attempts |-> statistics[1].value,
             found    |-> statistics[2].value,
             removed  |-> statistics[3].value,
             missed   |-> statistics[4].value]

\* C9 as stated: after N find calls by the caller, H of them hits, and M
\* overflowing inserts, statistics reports attempts = N, found = H,
\* missed = N - H and removed = M.
C9_AsStated ==
    /\ Reported.attempts = calls.finds
    /\ Reported.found = calls.find_hits
    /\ Reported.missed = calls.finds - calls.find_hits
    /\ Reported.removed = calls.overflows

\* C9 (amended): after N find calls of which H hit and I insert calls of
\* which U were made on a resident key, statistics reports
\* attempts = N + I, found = H + U and missed = (N - H) + (I - U); and if M
\* inserts overflowed the capacity, removed = M. A statistics call writes
\* exactly these four values.
C9_StatisticsAccounting ==
    /\ Reported.attempts = calls.finds + calls.inserts
    /\ Reported.found = calls.find_hits + calls.updates
    /\ Reported.missed =
           (calls.finds - calls.find_hits) + (calls.inserts - calls.updates)
    /\ Reported.removed = calls.overflows
    /\ last.op = "statistics" =>
           /\ Len(out) >= 4
           /\ SubSeq(out, Len(out) - 3, Len(out)) = statistics

\* statistics was called after finds that hit, finds that missed, and an
\* insert that overflowed
C9_Witness ==
    /\ last.op = "statistics"
    /\ calls.find_hits >= 1
    /\ calls.finds > calls.find_hits
    /\ calls.overflows >= 1

\* C10: the test program (capacity 4): after inserting pi, e, gold, sq2 the
\* cache holds these 4 keys and nothing was evicted; insert(zero) evicts pi
\* and leaves {e, gold, sq2, zero}; find(e) hits, returns e's value and
\* makes e the front; insert(one) evicts gold and leaves {e, sq2, zero, one}
\* with size 4; each of the 30 find(one) calls hits and removed stays 2.
C10_TestScenario ==
    client = "main" =>
        /\ pc = 5 => /\ DOMAIN table = {"pi", "e", "gold", "sq2"}
                     /\ Size = 4 /\ Len(lru_list) = 4
                     /\ stats.removed = 0
        /\ pc = 6 => /\ last.evicted = {"pi"}
                     /\ DOMAIN table = {"e", "gold", "sq2", "zero"}
                     /\ ListKeys(lru_list) = DOMAIN table
                     /\ Size = 4 /\ Len(lru_list) = 4
                     /\ stats.removed = 1
        /\ pc = 7 => /\ ret # <<>>
                     /\ Deref(table, ret) = 217
                     /\ Front = "e"
                     /\ DOMAIN table = {"e", "gold", "sq2", "zero"}
        /\ pc = 8 => /\ last.evicted = {"gold"}
                     /\ DOMAIN table = {"e", "sq2", "zero", "one"}
                     /\ ListKeys(lru_list) = DOMAIN table
                     /\ Size = 4 /\ Len(lru_list) = 4
                     /\ stats.removed = 2
        /\ pc \in 10..(9 + TestLoops) =>
                     /\ last = [op |-> "find", key |-> "one", value |-> 0,
                                resident |-> TRUE, evicted |-> {}]
                     /\ ret = <<"one">>
                     /\ Deref(table, ret) = 100
                     /\ DOMAIN table = {"e", "sq2", "zero", "one"}
                     /\ stats.removed = 2
        /\ pc > 9 + TestLoops => stats.removed = 2

\* the test program has run to its end
C10_Witness ==
    /\ client = "main"
    /\ pc = Len(MainProgram) + 1
    /\ stats.found = 1 + TestLoops

\* C11: constructing a cache with a non-positive capacity (0 or negative) is
\* rejected at construction: no usable cache results, so no public call is
\* ever served by a cache whose capacity argument was non-positive.
C11_NonPositiveCapacityRejected ==
    capacity <= 0 =>
        /\ last.op = "new"
        /\ clock = 0

\* the list without the node that holds key, the other nodes in their order
Without(list, key) == SelectSeq(list, LAMBDA n : n.key # key)

\* C12: for a resident key k, two find(k) calls in a row return the same
\* value, k is at the front after each, and the second call leaves the index
\* and the whole recency ordering as the first left them; only the attempts
\* and found counters advance (by 1 each).
C12_RepeatedFindIdempotent ==
    [][ (last.op = "find" /\ last.resident
             /\ last'.op = "find" /\ last'.key = last.key) =>
            /\ ret # <<>> /\ ret' = ret
            /\ Deref(table', ret') = Deref(table, ret)
            /\ Front = last.key /\ Front' = last.key
            /\ table' = table
            /\ lru_list' = lru_list
            /\ stats'.found_hits = stats.found_hits + 1
            /\ stats'.found = stats.found + 1
            /\ stats'.removed = stats.removed
            /\ stats'.miss = stats.miss ]_vars

\* the test program has found "one" twice in a row, in a cache of 4 keys
C12_Witness ==
    /\ client = "main"
    /\ pc = 11
    /\ last.op = "find" /\ last.key = "one" /\ last.resident
    /\ Len(lru_list) = 4

\* C13: find never changes the index (same resident keys, same value and
\* handle for each), whether the key is resident or not; on a hit the found
\* key moves to the front, the other keys keep their relative order, and
\* the attempts and found counters grow by exactly 1 each.
C13_FindFrame ==
    [][ last'.op = "find" =>
            /\ table' = table
            /\ last'.resident =>
                   /\ lru_list' # <<>> /\ Front' = last'.key
                   /\ Len(lru_list') = Len(lru_list)
                   /\ Without(lru_list', last'.key)
                          = Without(lru_list, last'.key)
                   /\ SubSeq(lru_list', 2, Len(lru_list'))
                          = Without(lru_list, last'.key)
                   /\ stats'.found_hits = stats.found_hits + 1
                   /\ stats'.found = stats.found + 1
            /\ ~last'.resident => lru_list' = lru_list ]_vars

\* the test program's find("e") hit the key at the back of a full cache of
\* four keys: the three keys it passed are behind it in their old order
C13_Witness ==
    /\ client = "main" /\ pc = 7
    /\ last.op = "find" /\ last.resident
    /\ [i \in 1..Len(lru_list) |-> lru_list[i].key]
           = <<"e", "zero", "sq2", "gold">>

\* C14: statistics is a pure read: it changes neither the index, the recency
\* ordering nor any counter, and it writes four values in the fixed order
\* attempts, found, removed, missed, where missed is attempts - found as they
\* are when it is called, and is never negative.
C14_StatisticsPureRead ==
    [][ last'.op = "statistics" =>
            /\ table' = table
            /\ lru_list' = lru_list
            /\ stats' = stats
            /\ maxsize' = maxsize
            /\ Len(out') = Len(out) + 4
            /\ SubSeq(out', 1, Len(out)) = out
            /\ LET line(i) == out'[Len(out) + i]
               IN  /\ line(1) = [label |-> "cache found hits:",
                                 value |-> stats.found_hits]
                   /\ line(2) = [label |-> "cache found     :",
                                 value |-> stats.found]
                   /\ line(3) = [label |-> "cache removed   :",
                                 value |-> stats.removed]
                   /\ line(4).label = "cache missed    :"
                   /\ line(4).value = line(1).value - line(2).value
                   /\ line(4).value >= 0 ]_vars

\* statistics was called when all four values it writes differ from zero
\* and from one another
C14_Witness ==
    /\ last.op = "statistics"
    /\ Len(out) >= 4
    /\ stats.found >= 1
    /\ stats.removed >= 1
    /\ stats.found_hits - stats.found >= 1
    /\ Cardinality({out[Len(out) - i].value : i \in 0..3}) = 4

\* C15: over the lifetime of a cache each reported statistic (attempts,
\* found, missed = attempts - found, removed) is non-decreasing: no find,
\* insert or statistics call lowers any of them.
C15_StatisticsMonotone ==
    [][ /\ Reported'.attempts >= Reported.attempts
        /\ Reported'.found >= Reported.found
        /\ Reported'.missed >= Reported.missed
        /\ Reported'.removed >= Reported.removed ]_vars

\* all four statistics have grown, and the last call was a hit (which raises
\* attempts and found together and so leaves missed where it was)
C15_Witness ==
    /\ last.op = "find" /\ last.resident
    /\ Reported.found >= 1
    /\ Reported.missed >= 2
    /\ Reported.removed >= 1

\* C16: a cache constructed with capacity 0 holds nothing: every
\* insert(k, v) leaves the cache empty, the key evicted being the one just
\* inserted, and adds 1 to removed; every find misses.
C16_ZeroCapacityHoldsNothing ==
    capacity = 0 =>
        /\ table = <<>> /\ DOMAIN table = {}
        /\ lru_list = <<>>
        /\ last.op = "insert" =>
               /\ ~last.resident
               /\ last.evicted = {last.key}
        /\ stats.removed = calls.inserts
        /\ last.op = "find" => ret = <<>> /\ ~last.resident
        /\ calls.find_hits = 0
        /\ stats.found = 0

\* a zero-capacity cache after two inserts and then a find of a key that
\* was inserted
C16_Witness ==
    /\ capacity = 0
    /\ calls.inserts >= 2
    /\ stats.removed >= 2
    /\ last.op = "find"
    /\ touched[last.key] > 0

\* C17: insert looks the key up through find, so every insert call advances
\* the lookup counters too: the attempts counter is the number of find calls
\* plus the number of insert calls, the found counter is the number of find
\* calls that hit plus the number of insert calls made on a resident key,
\* and found never exceeds attempts.
C17_InsertCountsAsLookup ==
    /\ stats.found_hits = calls.finds + calls.inserts
    /\ stats.found = calls.find_hits + calls.updates
    /\ stats.found <= stats.found_hits

\* finds that hit and missed, inserts of new and of resident keys
C17_Witness ==
    /\ calls.find_hits >= 1
    /\ calls.finds > calls.find_hits
    /\ calls.updates >= 1
    /\ calls.inserts > calls.updates

\* the reference LRU model, told from the history alone
\* the distinct keys ever inserted (a find can only hit an inserted key)
EverInserted == DOMAIN written
\* the n keys touched most recently, most recent first
RECURSIVE MostRecent(_, _)
MostRecent(keys, n) ==
    IF n = 0 \/ keys = {} THEN <<>>
    ELSE LET k == CHOOSE x \in keys : \A y \in keys : touched[y] <= touched[x]
         IN  <<k>> \o MostRecent(keys \ {k}, n - 1)
Min(a, b) == IF a <= b THEN a ELSE b

\* C18: for capacity c >= 1 the cache is the reference LRU model: the
\* resident keys are exactly the min(c, d) most recently touched of the d
\* distinct keys ever inserted, the recency ordering lists them from most to
\* least recently touched, and each resident key holds the value of its
\* latest insert.
C18_RefinesReferenceLRU ==
    capacity >= 1 =>
        LET ref == MostRecent(EverInserted,
                              Min(capacity, Cardinality(EverInserted)))
        IN  /\ DOMAIN table = {ref[i] : i \in 1..Len(ref)}
            /\ Size = Min(capacity, Cardinality(EverInserted))
            /\ [i \in 1..Len(lru_list) |-> lru_list[i].key] = ref
            /\ \A k \in DOMAIN table : table[k].value = written[k]

\* more keys inserted than fit, a hit changed the order, a value was
\* overwritten, and a key inserted earlier is no longer resident
C18_Witness ==
    /\ capacity >= 2
    /\ Cardinality(EverInserted) > capacity
    /\ calls.find_hits >= 1
    /\ calls.updates >= 1
    /\ \E k \in DOMAIN table : written[k] = 1

\* C19: entries are conserved: the number of resident keys plus the removed
\* counter is the number of insert calls whose key was not resident when
\* called; so the number of resident keys never decreases, and once it has
\* reached the capacity c >= 1 it stays exactly c.
C19_EntriesConserved ==
    [][ /\ Size' + stats'.removed = calls'.inserts - calls'.updates
        /\ Size + stats.removed = calls.inserts - calls.updates
        /\ Size' >= Size
        /\ (capacity >= 1 /\ Size = capacity) => Size' = capacity ]_vars

\* a full cache of several keys stayed full through an insert of a new key
\* that evicted
C19_Witness ==
    /\ capacity >= 2
    /\ Size = capacity
    /\ last.op = "insert" /\ ~last.resident
    /\ last.evicted # {}
    /\ stats.removed >= 2

\* C20: the constructor stores its int argument in an unsigned member, so a
\* negative argument n becomes n mod 2^32 (2^32 + n, in 16-bit halves 65535
\* and 65536 + n for n >= -65536); such a cache never evicts at any size
\* reached, and its size exceeds the capacity argument.
C20_NegativeCapacityNeverEvicts ==
    (capacity < 0 /\ capacity >= 0 - HalfWord) =>
        /\ maxsize = [hi |-> HalfWord - 1, lo |-> HalfWord + capacity]
        /\ stats.removed = 0
        /\ calls.overflows = 0
        /\ DOMAIN table = DOMAIN written
        /\ Size = calls.inserts - calls.updates
        /\ Size > capacity
        /\ ~SizeExceeds(Size + 1, maxsize)

\* a cache constructed with a negative argument holds every key the client
\* has, one insert after the other, with nothing evicted
C20_Witness ==
    /\ capacity < 0
    /\ DOMAIN table = ClientKeys
    /\ Size >= 3
    /\ last.op = "insert"

=============================================================================
